---- MODULE Spec2Model ----
(***************************************************************************)
(* A model of the driver/dispatch layer of rustun:                         *)
(*   - the client side: Client (facade) and ChannelDriver, src/client.rs   *)
(*   - the server side: HandlerDriver and TcpServerInner, src/server.rs    *)
(* The Channel, the transport, the spawner and the Handler are external    *)
(* collaborators; the Channel is modelled from its interface (cast, call,  *)
(* reply, poll, outstanding_transactions).                                 *)
(*                                                                         *)
(* Scheduling follows futures 0.1: a task is polled only after it has been *)
(* notified, and a poll that returns NotReady is notified again only by a  *)
(* source that itself reported NotReady (and so registered the task).      *)
(***************************************************************************)
EXTENDS Integers, Sequences, FiniteSets, TLC

\* ------------------------------------------------------------- bounds
MaxCmds == 3          \* commands (Call or Cast) issued by the application
MaxClients == 2       \* Client handles alive at the same time
MaxUnsolicited == 1   \* peer messages waiting unread at the client's transport
MaxMsgs == 2          \* messages a HandlerDriver's Channel receives
MaxConns == 3         \* connections that arrive at a TcpServer's listening socket

TransportErrors == {"e1", "e2"}

CmdIds == 1..MaxCmds

MsgIds == 1..MaxMsgs

ConnIds == 1..MaxConns

Peers == {"A", "B"}

\* The sender of the message with the given id: consecutive messages come from
\* different peers.
PeerOf(id) == IF id % 2 = 1 THEN "A" ELSE "B"

\* The response values a Handler may produce.
Responses == {"success", "error"}

\* ------------------------------------------------------------- state
VARIABLES
    \* client side (src/client.rs)
    clients,       \* number of live Client handles (clones of command_tx)
    issued,        \* commands issued so far; the next command has id issued + 1
    sendFailed,    \* ids of the commands whose command_tx.send returned an error
    command_rx,    \* the command queue, oldest first
    channel,       \* ChannelDriver.channel: Ok(channel) or Err(e)
    transactions,  \* Channel: ids of the outstanding (unresolved) call transactions
    arrived,       \* Channel: id -> the response or timeout waiting for that transaction
    peerMsgs,      \* Channel: peer messages waiting unread at the transport
    stream,        \* Channel: the inbound stream is "open", at its "end", or failed with e
    callResult,    \* id -> outcome of the future returned by Channel.call
    tasks,         \* ids of the spawned completion futures that have not run yet
    reply,         \* id -> the resolutions written to the call's reply-slot, in order
    handled,       \* id -> how handle_command treated the command
    castLog,       \* ids handed to Channel.cast, in order
    touched,       \* TRUE once an operation was performed on a failed Channel
    cdState,       \* ChannelDriver task: "parked" (poll returned NotReady) or "done"
    cdWake,        \* the ChannelDriver task has been notified and will be polled
    lastPoll,      \* what the latest ChannelDriver.poll observed and returned
    \* server side: one HandlerDriver (src/server.rs)
    received,      \* messages received so far; the next message has id received + 1
    hInbound,      \* Channel: the inbound stream not yet polled, oldest first
    response_rx,   \* the internal reply queue, oldest first
    deferred,      \* id -> state of the future spawned for the message
    handledBy,     \* id -> the Handler method the message was dispatched to
    msgOf,         \* id -> the message and the Action the Handler returns for it
    completion,    \* id -> the value the message's FutureReply completed with
    replies,       \* the calls of Channel.reply(peer, response), in order
    transportErrors, \* the errors passed to Handler.handle_transport_error, in order
    hdState,       \* HandlerDriver task: "parked", "done", "failed" or "panicked"
    hdError,       \* the error the HandlerDriver's poll returned
    hdRegistered,  \* the sources whose last poll returned NotReady to the driver
    hdWake,        \* the HandlerDriver task has been notified and will be polled
    \* server side: one TcpServer (src/server.rs)
    tcpState,      \* TcpServerInner: "Binding" or "Listening"; "Failed" once poll erred
    bind,          \* the TcpListenerBind future: "pending", "ready" or its error
    tcpSlots,      \* the Options of the Binding state: spawner and handler_factory
    incoming,      \* the accept stream not yet polled, oldest first
    arrivedConns,  \* connections arrived so far; the next one has id arrivedConns + 1
    created,       \* calls of handler_factory.create() so far
    connHandler,   \* connection id -> the handler instance created for it (0: none)
    connTask,      \* connection id -> state of the task spawned for it
    connErrors,    \* handler instance -> calls of its handle_transport_error
    connDrivers,   \* connections for which a Channel and a HandlerDriver were built
    tcpError,      \* the error the TcpServer's poll returned
    tcpRegistered, \* the source whose last poll returned NotReady to the server
    tcpWake,       \* the TcpServer task has been notified and will be polled
    \* server side: one UdpServer (src/server.rs), whose HandlerDriver is the
    \* one of the handler variables above, polled inside the server's task
    udpState,      \* UdpServerInner: "Binding" or "Running"; "Failed" once poll erred
    udpBind,       \* the UdpSocketBind future: "pending", "ready" or its error
    udpSlots,      \* the Options of the Binding state: spawner and handler
    udpBuilt,      \* Channels (and HandlerDrivers) constructed so far
    udpError,      \* the error the UdpServer's poll returned
    \* a caller of the Client
    droppedCall    \* the call whose future the caller dropped unresolved (0: none)

clientVars == <<clients, issued, sendFailed, command_rx, channel, transactions,
                arrived, peerMsgs, stream, callResult, tasks, reply, handled, castLog,
                touched, cdState, cdWake, lastPoll, droppedCall>>

handlerVars == <<received, hInbound, response_rx, deferred, handledBy, msgOf,
                 completion, replies, transportErrors, hdState, hdError,
                 hdRegistered, hdWake>>

tcpVars == <<tcpState, bind, tcpSlots, incoming, arrivedConns, created, connHandler,
             connTask, connErrors, connDrivers, tcpError, tcpRegistered, tcpWake>>

udpVars == <<udpState, udpBind, udpSlots, udpBuilt, udpError>>

vars == <<clientVars, handlerVars, tcpVars, udpVars>>

\* ------------------------------------------------------------- values
ChannelOk == [ok |-> TRUE, err |-> "none"]
ChannelErr(e) == [ok |-> FALSE, err |-> e]

\* Outcomes carried by a reply-slot: Result<Response, Error>.
Pending == [k |-> "pending", id |-> 0, err |-> "none"]
ResponseTo(id) == [k |-> "response", id |-> id, err |-> "none"]
TimeoutOf(id) == [k |-> "timeout", id |-> id, err |-> "none"]
AbortedOf(id) == [k |-> "aborted", id |-> id, err |-> "none"]
StoredError(e) == [k |-> "channel_error", id |-> 0, err |-> e]

\* ret: what the poll returned; via: the return that produced Ready; closed: the
\* poll saw the closed command queue; atClose: OutstandingCount read at that
\* moment; left: the transactions outstanding when the poll returned.
NoPoll == [ret |-> "none", via |-> "none", closed |-> FALSE, atClose |-> 0, left |-> 0]

\* The part of the state that ChannelDriver.poll reads and writes.
ClientSt ==
    [channel |-> channel, transactions |-> transactions, arrived |-> arrived,
     peerMsgs |-> peerMsgs, stream |-> stream,
     callResult |-> callResult, tasks |-> tasks, reply |-> reply,
     handled |-> handled, castLog |-> castLog, touched |-> touched]

\* ------------------------------------------------------------- Channel
\* Every operation on the Channel notes whether the Channel had already failed.
Touch(st) == [st EXCEPT !.touched = @ \/ ~st.channel.ok]

ChannelCast(st, id) == [Touch(st) EXCEPT !.castLog = Append(@, id)]

ChannelCall(st, id) ==
    [Touch(st) EXCEPT !.transactions = @ \cup {id}, !.callResult[id] = Pending]

ChannelOutstanding(st) == Cardinality(st.transactions)

\* Resolving a transaction completes the future Channel.call returned for it.
ResolveTransaction(st, id) ==
    IF id \in st.transactions /\ st.arrived[id] # "none"
    THEN [st EXCEPT !.transactions = @ \ {id},
                    !.arrived[id] = "none",
                    !.callResult[id] = IF st.arrived[id] = "response"
                                       THEN ResponseTo(id) ELSE TimeoutOf(id)]
    ELSE st

RECURSIVE ResolveArrived(_, _)
ResolveArrived(st, ids) ==
    IF ids = {} THEN st
    ELSE LET id == CHOOSE i \in ids : TRUE
         IN ResolveArrived(ResolveTransaction(st, id), ids \ {id})

\* One Channel.poll: responses and timeouts are matched to their transactions
\* inside the Channel; only peer messages, the end of the stream and a transport
\* error are returned to the caller.
ChannelPoll(st) ==
    LET matched == ResolveArrived(Touch(st), CmdIds)
    IN CASE matched.peerMsgs > 0 ->
              [ret |-> "Some", err |-> "none",
               st |-> [matched EXCEPT !.peerMsgs = @ - 1]]
         [] matched.stream = "open" ->
              [ret |-> "NotReady", err |-> "none", st |-> matched]
         [] matched.stream = "end" ->
              [ret |-> "None", err |-> "none", st |-> matched]
         [] OTHER ->
              [ret |-> "Err", err |-> matched.stream, st |-> matched]

\* Dropping the Channel aborts the futures of its outstanding transactions and
\* closes the transport.
DropChannel(st) ==
    [st EXCEPT !.transactions = {},
               !.arrived = [i \in CmdIds |-> "none"],
               !.peerMsgs = 0,
               !.callResult = [i \in CmdIds |->
                                 IF i \in st.transactions THEN AbortedOf(i) ELSE @[i]]]

\* ------------------------------------------------------------- ChannelDriver
ReplyExit(st, id, result) == [st EXCEPT !.reply[id] = Append(@, result)]

\* spawner.spawn(channel.call(..).then(|result| reply.exit(result)))
SpawnCompletion(st, id) == [st EXCEPT !.tasks = @ \cup {id}]

\* Mutant of HandleCommand: a Cast is forwarded without a look at self.channel.
HandleCommandCastUnchecked(st, cmd) ==
    IF cmd.kind = "Cast"
    THEN [ChannelCast(st, cmd.id) EXCEPT !.handled[cmd.id] = "cast"]
    ELSE IF ~st.channel.ok
         THEN [ReplyExit(st, cmd.id, StoredError(st.channel.err))
                 EXCEPT !.handled[cmd.id] = "call_failed"]
         ELSE [SpawnCompletion(ChannelCall(st, cmd.id), cmd.id)
                 EXCEPT !.handled[cmd.id] = "call"]

\* Mutant of HandleCommand: the state of self.channel is not examined.
HandleCommandNoCheck(st, cmd) ==
    IF cmd.kind = "Cast"
    THEN [ChannelCast(st, cmd.id) EXCEPT !.handled[cmd.id] = "cast"]
    ELSE [SpawnCompletion(ChannelCall(st, cmd.id), cmd.id)
            EXCEPT !.handled[cmd.id] = "call"]

HandleCommand(st, cmd) ==
    IF cmd.kind = "Cast"
    THEN IF st.channel.ok
         THEN [ChannelCast(st, cmd.id) EXCEPT !.handled[cmd.id] = "cast"]
         ELSE [st EXCEPT !.handled[cmd.id] = "cast_dropped"]
    ELSE IF ~st.channel.ok
         THEN [ReplyExit(st, cmd.id, StoredError(st.channel.err))
                 EXCEPT !.handled[cmd.id] = "call_failed"]
         ELSE [SpawnCompletion(ChannelCall(st, cmd.id), cmd.id)
                 EXCEPT !.handled[cmd.id] = "call"]

\* Mutant of DrainCommands: the newest command is handled first.
RECURSIVE DrainCommandsNewestFirst(_, _)
DrainCommandsNewestFirst(st, queue) ==
    IF queue = <<>> THEN st
    ELSE DrainCommandsNewestFirst(HandleCommand(st, queue[Len(queue)]),
                                  SubSeq(queue, 1, Len(queue) - 1))

\* while let Async::Ready(Some(command)) = self.command_rx.poll()
RECURSIVE DrainCommands(_, _)
DrainCommands(st, queue) ==
    IF queue = <<>> THEN st
    ELSE DrainCommands(HandleCommand(st, Head(queue)), Tail(queue))

\* self.channel.as_mut().ok().map_or(0, |c| c.outstanding_transactions())
OutstandingTransactions(st) ==
    IF st.channel.ok THEN ChannelOutstanding(Touch(st)) ELSE 0

\* while self.channel.is_ok() { match self.channel.poll() { .. } }
RECURSIVE PollChannelLoop(_)
PollChannelLoop(st) ==
    IF ~st.channel.ok
    THEN [ret |-> "NotReady", st |-> st]
    ELSE LET r == ChannelPoll(st)
         IN CASE r.ret = "Err" ->
                   PollChannelLoop([DropChannel(r.st) EXCEPT !.channel = ChannelErr(r.err)])
              [] r.ret = "NotReady" -> [ret |-> "NotReady", st |-> r.st]
              [] r.ret = "None" -> [ret |-> "Ready", st |-> r.st]
              [] OTHER -> PollChannelLoop(r.st)

\* Mutant of DriverPollResult: the closed queue ends the driver whatever the
\* outstanding count is.
DriverPollResultIgnoresCount(st, queue, closed) ==
    LET drained == DrainCommands(st, queue)
        outstanding == OutstandingTransactions(drained)
    IN IF closed
       THEN [ret |-> "Ready", via |-> "closed", closed |-> TRUE,
             atClose |-> outstanding, st |-> drained]
       ELSE LET r == PollChannelLoop(drained)
            IN [ret |-> r.ret,
                via |-> IF r.ret = "Ready" THEN "ended" ELSE "none",
                closed |-> closed, atClose |-> 0, st |-> r.st]

\* Mutant of DriverPollResult: the closed queue always breaks out of the command
\* loop, also when nothing is outstanding.
DriverPollResultAlwaysBreaks(st, queue, closed) ==
    LET drained == DrainCommands(st, queue)
        outstanding == OutstandingTransactions(drained)
        r == PollChannelLoop(drained)
    IN [ret |-> r.ret,
        via |-> IF r.ret = "Ready" THEN "ended" ELSE "none",
        closed |-> closed,
        atClose |-> IF closed THEN outstanding ELSE 0,
        st |-> r.st]

\* The whole of ChannelDriver::poll, from the state st and the queue contents.
DriverPollResult(st, queue, closed) ==
    LET drained == DrainCommands(st, queue)
        outstanding == OutstandingTransactions(drained)
    IN IF closed /\ outstanding = 0
       THEN [ret |-> "Ready", via |-> "closed", closed |-> TRUE, atClose |-> 0,
             st |-> drained]
       ELSE LET r == PollChannelLoop(drained)
            IN [ret |-> r.ret,
                via |-> IF r.ret = "Ready" THEN "ended" ELSE "none",
                closed |-> closed,
                atClose |-> IF closed THEN outstanding ELSE 0,
                st |-> r.st]

SetClientSt(st) ==
    /\ channel' = st.channel
    /\ transactions' = st.transactions
    /\ arrived' = st.arrived
    /\ peerMsgs' = st.peerMsgs
    /\ stream' = st.stream
    /\ callResult' = st.callResult
    /\ tasks' = st.tasks
    /\ reply' = st.reply
    /\ handled' = st.handled
    /\ castLog' = st.castLog
    /\ touched' = st.touched

DriverPoll ==
    /\ cdState = "parked"
    /\ cdWake
    /\ LET r == DriverPollResult(ClientSt, command_rx, clients = 0)
       IN /\ lastPoll' = [ret |-> r.ret, via |-> r.via, closed |-> r.closed,
                          atClose |-> r.atClose,
                          left |-> Cardinality(r.st.transactions)]
          /\ IF r.ret = "Ready"
             THEN /\ cdState' = "done"
                  \* the finished driver is dropped, and its Channel with it
                  /\ SetClientSt(IF r.st.channel.ok THEN DropChannel(r.st) ELSE r.st)
             ELSE /\ cdState' = "parked"
                  /\ SetClientSt(r.st)
    /\ command_rx' = <<>>
    /\ cdWake' = FALSE
    /\ UNCHANGED <<clients, issued, sendFailed>>
    /\ UNCHANGED <<droppedCall, handlerVars, tcpVars, udpVars>>

\* Mutant of CompletionTask: the reply-slot receives the outcome of whichever call
\* the Channel has resolved.
CompletionTaskCrossTalk(id) ==
    /\ id \in tasks
    /\ \E other \in CmdIds :
          /\ callResult[other] # Pending
          /\ reply' = [reply EXCEPT ![id] = Append(@, callResult[other])]
    /\ tasks' = tasks \ {id}
    /\ UNCHANGED <<clients, issued, sendFailed, command_rx, channel, transactions,
                   arrived, peerMsgs, stream, callResult, handled, castLog, touched,
                   cdState, cdWake, lastPoll>>
    /\ UNCHANGED <<droppedCall, handlerVars, tcpVars, udpVars>>

\* Mutant of CompletionTask: a reply-slot whose receiver is gone is an error
\* that takes the other completion futures down with it.
CompletionTaskAbortsOnDropped(id) ==
    /\ id \in tasks
    /\ callResult[id] # Pending
    /\ IF id = droppedCall
       THEN tasks' = {} /\ UNCHANGED reply
       ELSE /\ reply' = [reply EXCEPT ![id] = Append(@, callResult[id])]
            /\ tasks' = tasks \ {id}
    /\ UNCHANGED <<clients, issued, sendFailed, command_rx, channel, transactions,
                   arrived, peerMsgs, stream, callResult, handled, castLog, touched,
                   cdState, cdWake, lastPoll>>
    /\ UNCHANGED <<droppedCall, handlerVars, tcpVars, udpVars>>

\* The spawned completion future: once the Channel has resolved the call, it
\* writes that outcome to the reply-slot it captured.
CompletionTask(id) ==
    /\ id \in tasks
    /\ callResult[id] # Pending
    /\ reply' = [reply EXCEPT ![id] = Append(@, callResult[id])]
    /\ tasks' = tasks \ {id}
    /\ UNCHANGED <<clients, issued, sendFailed, command_rx, channel, transactions,
                   arrived, peerMsgs, stream, callResult, handled, castLog, touched,
                   cdState, cdWake, lastPoll>>
    /\ UNCHANGED <<droppedCall, handlerVars, tcpVars, udpVars>>

\* ------------------------------------------------------------- Client
\* Mutant of Send: the command is queued and Ok returned whether or not the
\* receiver exists.
SendNeverFails(kind) ==
    /\ clients > 0
    /\ issued < MaxCmds
    /\ issued' = issued + 1
    /\ command_rx' = Append(command_rx, [kind |-> kind, id |-> issued + 1])
    /\ cdWake' = TRUE
    /\ UNCHANGED <<clients, sendFailed, channel, transactions, arrived, peerMsgs,
                   stream, callResult,
                   tasks, reply, handled, castLog, touched, cdState, lastPoll>>
    /\ UNCHANGED <<droppedCall, handlerVars, tcpVars, udpVars>>

\* command_tx.send(command): fails when the receiver (the driver) is gone.
Send(kind) ==
    /\ clients > 0
    /\ issued < MaxCmds
    /\ issued' = issued + 1
    /\ IF cdState = "done"
       THEN /\ sendFailed' = sendFailed \cup {issued + 1}
            /\ UNCHANGED <<command_rx, cdWake>>
       ELSE /\ command_rx' = Append(command_rx, [kind |-> kind, id |-> issued + 1])
            /\ cdWake' = TRUE
            /\ UNCHANGED sendFailed
    /\ UNCHANGED <<clients, channel, transactions, arrived, peerMsgs, stream,
                   callResult,
                   tasks, reply, handled, castLog, touched, cdState, lastPoll>>
    /\ UNCHANGED <<droppedCall, handlerVars, tcpVars, udpVars>>

ClientCall == Send("Call")

ClientCast == Send("Cast")

ClientClone ==
    /\ clients > 0
    /\ clients < MaxClients
    /\ clients' = clients + 1
    /\ UNCHANGED <<issued, sendFailed, command_rx, channel, transactions, arrived,
                   peerMsgs, stream, callResult, tasks, reply, handled, castLog, touched,
                   cdState, cdWake, lastPoll>>
    /\ UNCHANGED <<droppedCall, handlerVars, tcpVars, udpVars>>

\* Dropping the last handle closes the queue and notifies the receiver.
ClientDrop ==
    /\ clients > 0
    /\ clients' = clients - 1
    /\ cdWake' = IF clients = 1 /\ cdState = "parked" THEN TRUE ELSE cdWake
    /\ UNCHANGED <<issued, sendFailed, command_rx, channel, transactions, arrived,
                   peerMsgs, stream, callResult, tasks, reply, handled, castLog, touched,
                   cdState, lastPoll>>
    /\ UNCHANGED <<droppedCall, handlerVars, tcpVars, udpVars>>

\* The caller drops the future Client.call returned before it has resolved:
\* the receiving half of that call's reply-slot is gone. Nothing the driver
\* holds refers to it.
DropCallFuture(id) ==
    /\ droppedCall = 0
    /\ id <= issued
    /\ id \notin sendFailed
    /\ \/ \E n \in 1..Len(command_rx) :
             command_rx[n].id = id /\ command_rx[n].kind = "Call"
       \/ handled[id] = "call"
    /\ reply[id] = <<>>
    /\ droppedCall' = id
    /\ UNCHANGED <<clients, issued, sendFailed, command_rx, channel, transactions,
                   arrived, peerMsgs, stream, callResult, tasks, reply, handled,
                   castLog, touched, cdState, cdWake, lastPoll>>
    /\ UNCHANGED <<handlerVars, tcpVars, udpVars>>

\* ------------------------------------------------------------- transport (client)
\* The transport delivers while the driver holds a live Channel whose inbound
\* stream has neither ended nor failed. The driver registered with the Channel
\* when its last poll of it returned NotReady, so every event notifies it.
TransportLive == cdState = "parked" /\ channel.ok /\ stream = "open"

NetResponse(id) ==
    /\ TransportLive
    /\ id \in transactions
    /\ arrived[id] = "none"
    /\ arrived' = [arrived EXCEPT ![id] = "response"]
    /\ cdWake' = TRUE
    /\ UNCHANGED <<clients, issued, sendFailed, command_rx, channel, transactions,
                   peerMsgs, stream, callResult, tasks, reply, handled, castLog,
                   touched, cdState, lastPoll>>
    /\ UNCHANGED <<droppedCall, handlerVars, tcpVars, udpVars>>

\* The retransmission timer of a transaction expires.
NetTimeout(id) ==
    /\ TransportLive
    /\ id \in transactions
    /\ arrived[id] = "none"
    /\ arrived' = [arrived EXCEPT ![id] = "timeout"]
    /\ cdWake' = TRUE
    /\ UNCHANGED <<clients, issued, sendFailed, command_rx, channel, transactions,
                   peerMsgs, stream, callResult, tasks, reply, handled, castLog,
                   touched, cdState, lastPoll>>
    /\ UNCHANGED <<droppedCall, handlerVars, tcpVars, udpVars>>

NetMessage ==
    /\ TransportLive
    /\ peerMsgs < MaxUnsolicited
    /\ peerMsgs' = peerMsgs + 1
    /\ cdWake' = TRUE
    /\ UNCHANGED <<clients, issued, sendFailed, command_rx, channel, transactions,
                   arrived, stream, callResult, tasks, reply, handled, castLog,
                   touched, cdState, lastPoll>>
    /\ UNCHANGED <<droppedCall, handlerVars, tcpVars, udpVars>>

NetClose(how) ==
    /\ TransportLive
    /\ stream' = how
    /\ cdWake' = TRUE
    /\ UNCHANGED <<clients, issued, sendFailed, command_rx, channel, transactions,
                   arrived, peerMsgs, callResult, tasks, reply, handled, castLog,
                   touched, cdState, lastPoll>>
    /\ UNCHANGED <<droppedCall, handlerVars, tcpVars, udpVars>>

NetEnd == NetClose("end")

NetFail(e) == NetClose(e)

\* ------------------------------------------------------------- HandlerDriver
NoMsg == [kind |-> "none", id |-> 0, peer |-> "none", act |-> "none",
          val |-> "none", err |-> "none"]

\* The Actions a Handler method can return. Action<Never>::Reply cannot be built
\* for an indication; a FutureReply (of a future that never yields) can.
ActionsFor(kind) ==
    IF kind = "Indication"
    THEN {"NoReply", "FutureNoReply", "FutureReply"}
    ELSE {"NoReply", "FutureNoReply", "Reply", "FutureReply"}

\* The part of the state that HandlerDriver.poll reads and writes.
HandlerSt ==
    [inbound |-> hInbound, response_rx |-> response_rx, deferred |-> deferred,
     handledBy |-> handledBy, replies |-> replies,
     transportErrors |-> transportErrors, registered |-> {},
     response_tx |-> TRUE]

\* The senders of the reply queue: the driver's own response_tx, and the clone
\* held by the future of every FutureReply that has not completed.
HeldSenders(st) ==
    (IF st.response_tx THEN 1 ELSE 0)
      + Cardinality({i \in MsgIds : st.deferred[i] = "reply"})

ChannelReply(st, peer, response, id) ==
    [st EXCEPT !.replies = Append(@, [peer |-> peer, val |-> response, id |-> id])]

\* self.spawner.spawn(future ...): the future runs as a task of its own.
SpawnDeferred(st, id, what) == [st EXCEPT !.deferred[id] = what]

\* Mutant of HandleAction: the future of a FutureReply is spawned without the
\* sender of the reply queue, as that of a FutureNoReply is.
HandleActionForgetsQueue(st, m) ==
    CASE m.act = "NoReply" -> st
      [] m.act = "FutureNoReply" -> SpawnDeferred(st, m.id, "noreply")
      [] m.act = "Reply" -> ChannelReply(st, m.peer, m.val, m.id)
      [] OTHER -> SpawnDeferred(st, m.id, "noreply")

\* Mutant of HandleAction: an immediate reply is sent and queued as well.
HandleActionReplyAndQueue(st, m) ==
    CASE m.act = "NoReply" -> st
      [] m.act = "FutureNoReply" -> SpawnDeferred(st, m.id, "noreply")
      [] m.act = "Reply" ->
           [ChannelReply(st, m.peer, m.val, m.id) EXCEPT
              !.response_rx = Append(@, [peer |-> m.peer, val |-> m.val, id |-> m.id])]
      [] OTHER -> SpawnDeferred(st, m.id, "reply")

\* Mutant of HandleAction: an immediate reply is held back while the future of
\* an earlier FutureReply is still running.
HandleActionAwaitsPending(st, m) ==
    CASE m.act = "NoReply" -> st
      [] m.act = "FutureNoReply" -> SpawnDeferred(st, m.id, "noreply")
      [] m.act = "Reply" ->
           IF \E i \in MsgIds : st.deferred[i] = "reply"
           THEN st
           ELSE ChannelReply(st, m.peer, m.val, m.id)
      [] OTHER -> SpawnDeferred(st, m.id, "reply")

\* handle_request and handle_invalid_message share this match on the Action.
HandleAction(st, m) ==
    CASE m.act = "NoReply" -> st
      [] m.act = "FutureNoReply" -> SpawnDeferred(st, m.id, "noreply")
      [] m.act = "Reply" -> ChannelReply(st, m.peer, m.val, m.id)
      [] OTHER -> SpawnDeferred(st, m.id, "reply")

HandleRequest(st, m) ==
    HandleAction([st EXCEPT !.handledBy[m.id] = "handle_call"], m)

HandleInvalidMessage(st, m) ==
    HandleAction([st EXCEPT !.handledBy[m.id] = "handle_invalid_message"], m)

\* Mutant of HandleIndication: any other Action is swallowed.
HandleIndicationSwallows(st, m) ==
    LET called == [st EXCEPT !.handledBy[m.id] = "handle_cast"]
    IN CASE m.act = "FutureNoReply" ->
              [panic |-> FALSE, st |-> SpawnDeferred(called, m.id, "noreply")]
         [] OTHER -> [panic |-> FALSE, st |-> called]

\* The result is [panic, st]: any Action but NoReply and FutureNoReply reaches
\* unreachable!().
HandleIndication(st, m) ==
    LET called == [st EXCEPT !.handledBy[m.id] = "handle_cast"]
    IN CASE m.act = "NoReply" -> [panic |-> FALSE, st |-> called]
         [] m.act = "FutureNoReply" ->
              [panic |-> FALSE, st |-> SpawnDeferred(called, m.id, "noreply")]
         [] OTHER -> [panic |-> TRUE, st |-> called]

HandleMessage(st, m) ==
    CASE m.kind = "Indication" -> HandleIndication(st, m)
      [] m.kind = "Request" -> [panic |-> FALSE, st |-> HandleRequest(st, m)]
      [] OTHER -> [panic |-> FALSE, st |-> HandleInvalidMessage(st, m)]

\* Mutant of ForwardReply: the newest item of the queue is forwarded first.
ForwardReplyNewestFirst(st) ==
    IF st.response_rx = <<>>
    THEN [did |-> FALSE, closed |-> HeldSenders(st) = 0,
          st |-> [st EXCEPT !.registered = @ \cup {"response_rx"}]]
    ELSE LET item == st.response_rx[Len(st.response_rx)]
         IN [did |-> TRUE, closed |-> FALSE,
             st |-> ChannelReply([st EXCEPT !.response_rx =
                                      SubSeq(@, 1, Len(@) - 1)],
                                 item.peer, item.val, item.id)]

\* Mutant of ForwardReply: the item is taken from the queue and not replied.
ForwardReplyDrops(st) ==
    IF st.response_rx = <<>>
    THEN [did |-> FALSE, closed |-> HeldSenders(st) = 0,
          st |-> [st EXCEPT !.registered = @ \cup {"response_rx"}]]
    ELSE [did |-> TRUE, closed |-> FALSE, st |-> [st EXCEPT !.response_rx = Tail(@)]]

\* if let Async::Ready(item) = self.response_rx.poll() { self.channel.reply(..) }
\* The result is [did, closed, st]; closed is Ready(None), which the queue
\* reports once it is empty and no sender is left, and which item.expect(..)
\* turns into a panic.
ForwardReply(st) ==
    IF st.response_rx = <<>>
    THEN [did |-> FALSE, closed |-> HeldSenders(st) = 0,
          st |-> [st EXCEPT !.registered = @ \cup {"response_rx"}]]
    ELSE LET item == Head(st.response_rx)
         IN [did |-> TRUE, closed |-> FALSE,
             st |-> ChannelReply([st EXCEPT !.response_rx = Tail(@)],
                                 item.peer, item.val, item.id)]

\* Mutant of TransportFailed: the error is returned without telling the Handler.
TransportFailedSilently(st, e) == [ret |-> "Err", err |-> e, st |-> st]

\* Err(e) => { self.handler.handle_transport_error(&e); return Err(e); }
TransportFailed(st, e) ==
    [ret |-> "Err", err |-> e, st |-> [st EXCEPT !.transportErrors = Append(@, e)]]

QueueClosed(st) == [ret |-> "Panic", err |-> "reply queue closed", st |-> st]

\* Mutant of HandlerLoop: the poll returns NotReady right after a message has
\* been handled, without another look at the Channel.
RECURSIVE HandlerLoopYieldsAfterMessage(_)
HandlerLoopYieldsAfterMessage(st0) ==
    LET st == [st0 EXCEPT !.registered = {}]
    IN IF st.inbound = <<>>
       THEN LET f == ForwardReply([st EXCEPT !.registered = {"channel"}])
            IN CASE f.closed -> QueueClosed(f.st)
                 [] f.did -> HandlerLoopYieldsAfterMessage(f.st)
                 [] OTHER -> [ret |-> "NotReady", err |-> "none", st |-> f.st]
       ELSE LET m == Head(st.inbound)
                rest == [st EXCEPT !.inbound = Tail(@)]
            IN CASE m.kind = "fail" -> TransportFailed(rest, m.err)
                 [] m.kind = "end" -> [ret |-> "Ready", err |-> "none", st |-> rest]
                 [] OTHER ->
                      LET h == HandleMessage(rest, m)
                      IN IF h.panic
                         THEN [ret |-> "Panic", err |-> "none", st |-> h.st]
                         ELSE [ret |-> "NotReady", err |-> "none",
                               st |-> ForwardReply(h.st).st]

\* The loop of HandlerDriver::poll: each iteration polls the Channel once and
\* the reply queue once, and the loop goes on while either made progress.
RECURSIVE HandlerLoop(_)
HandlerLoop(st0) ==
    LET st == [st0 EXCEPT !.registered = {}]
    IN IF st.inbound = <<>>
       THEN LET f == ForwardReply([st EXCEPT !.registered = {"channel"}])
            IN CASE f.closed -> QueueClosed(f.st)
                 [] f.did -> HandlerLoop(f.st)
                 [] OTHER -> [ret |-> "NotReady", err |-> "none", st |-> f.st]
       ELSE LET m == Head(st.inbound)
                rest == [st EXCEPT !.inbound = Tail(@)]
            IN CASE m.kind = "fail" -> TransportFailed(rest, m.err)
                 [] m.kind = "end" -> [ret |-> "Ready", err |-> "none", st |-> rest]
                 [] OTHER ->
                      LET h == HandleMessage(rest, m)
                          f == ForwardReply(h.st)
                      IN CASE h.panic ->
                                [ret |-> "Panic", err |-> "none", st |-> h.st]
                           [] f.closed -> QueueClosed(f.st)
                           [] OTHER -> HandlerLoop(f.st)

HandlerPoll ==
    /\ hdState = "parked"
    /\ hdWake
    /\ LET r == HandlerLoop(HandlerSt)
       IN /\ hdState' = CASE r.ret = "NotReady" -> "parked"
                          [] r.ret = "Ready" -> "done"
                          [] r.ret = "Err" -> "failed"
                          [] OTHER -> "panicked"
          /\ hdError' = r.err
          \* a driver that has returned is dropped, with its Channel and its queue
          /\ hInbound' = IF r.ret = "NotReady" THEN r.st.inbound ELSE <<>>
          /\ response_rx' = IF r.ret = "NotReady" THEN r.st.response_rx ELSE <<>>
          /\ hdRegistered' = IF r.ret = "NotReady" THEN r.st.registered ELSE {}
          /\ deferred' = r.st.deferred
          /\ handledBy' = r.st.handledBy
          /\ replies' = r.st.replies
          /\ transportErrors' = r.st.transportErrors
    /\ hdWake' = FALSE
    /\ UNCHANGED <<received, msgOf, completion>>
    /\ UNCHANGED <<clientVars, tcpVars, udpVars>>

\* A source notifies the task only if the task registered with it.
Notify(source) == hdWake' = (hdWake \/ source \in hdRegistered)

HStreamOpen ==
    /\ hdState = "parked"
    /\ \A i \in 1..Len(hInbound) : hInbound[i].kind \notin {"end", "fail"}

\* A message arrives from a peer; the Handler will answer it with act (and, for
\* Action::Reply, with the response val).
Receive(kind, peer, act, val) ==
    /\ HStreamOpen
    /\ peer = PeerOf(received + 1)
    /\ received < MaxMsgs
    /\ act \in ActionsFor(kind)
    /\ (act = "Reply") = (val # "none")
    /\ received' = received + 1
    /\ LET m == [kind |-> kind, id |-> received + 1, peer |-> peer, act |-> act,
                 val |-> val, err |-> "none"]
       IN /\ hInbound' = Append(hInbound, m)
          /\ msgOf' = [msgOf EXCEPT ![received + 1] = m]
    /\ Notify("channel")
    /\ UNCHANGED <<response_rx, deferred, handledBy, completion, replies,
                   transportErrors, hdState, hdError, hdRegistered>>
    /\ UNCHANGED <<clientVars, tcpVars, udpVars>>

HStreamClose(kind, e) ==
    /\ HStreamOpen
    /\ hInbound' = Append(hInbound, [NoMsg EXCEPT !.kind = kind, !.err = e])
    /\ Notify("channel")
    /\ UNCHANGED <<received, response_rx, deferred, handledBy, msgOf, completion,
                   replies, transportErrors, hdState, hdError, hdRegistered>>
    /\ UNCHANGED <<clientVars, tcpVars, udpVars>>

HStreamEnd == HStreamClose("end", "none")

HStreamFail(e) == HStreamClose("fail", e)

\* The future of a FutureReply completes with val: tx.send((peer, response)),
\* whose error (the driver is gone) is ignored.
FutureReplyCompletes(id, val) ==
    /\ deferred[id] = "reply"
    /\ completion' = [completion EXCEPT ![id] = val]
    /\ IF hdState = "parked"
       THEN /\ response_rx' = Append(response_rx,
                                     [peer |-> msgOf[id].peer, val |-> val, id |-> id])
            /\ deferred' = [deferred EXCEPT ![id] = "sent"]
            /\ Notify("response_rx")
       ELSE /\ deferred' = [deferred EXCEPT ![id] = "lost"]
            /\ UNCHANGED <<response_rx, hdWake>>
    /\ UNCHANGED <<received, hInbound, handledBy, msgOf, replies, transportErrors,
                   hdState, hdError, hdRegistered>>
    /\ UNCHANGED <<clientVars, tcpVars, udpVars>>

FutureNoReplyCompletes(id) ==
    /\ deferred[id] = "noreply"
    /\ deferred' = [deferred EXCEPT ![id] = "finished"]
    /\ UNCHANGED <<received, hInbound, response_rx, handledBy, msgOf, completion,
                   replies, transportErrors, hdState, hdError, hdRegistered, hdWake>>
    /\ UNCHANGED <<clientVars, tcpVars, udpVars>>

\* ------------------------------------------------------------- TcpServer
\* The part of the state that TcpServerInner.poll reads and writes.
TcpSt ==
    [state |-> tcpState, bind |-> bind, slots |-> tcpSlots, incoming |-> incoming,
     created |-> created, connHandler |-> connHandler, connTask |-> connTask]

\* The Binding arm once the listener exists: listener.incoming(),
\* spawner.take().expect(..), handler_factory.take().expect(..) and the
\* transition to Listening. The result is [panic, st].
TcpStartListening(st) ==
    IF st.slots.spawner = "None" \/ st.slots.handler_factory = "None"
    THEN [panic |-> TRUE, st |-> st]
    ELSE [panic |-> FALSE,
          st |-> [st EXCEPT !.state = "Listening",
                            !.slots = [spawner |-> "None",
                                       handler_factory |-> "None"]]]

\* let mut handler = handler_factory.create(); spawner.spawn(future.then(..))
AcceptConnection(st, id) ==
    [st EXCEPT !.created = @ + 1,
               !.connHandler[id] = st.created + 1,
               !.connTask[id] = "connecting"]

\* Mutant of ListeningArm: the end of the accept stream ends the server
\* successfully.
ListeningArmCompletes(st) ==
    IF st.incoming = <<>>
    THEN [ret |-> "NotReady", err |-> "none", registered |-> "incoming", st |-> st]
    ELSE LET ev == Head(st.incoming)
             rest == [st EXCEPT !.incoming = Tail(@)]
         IN CASE ev.t = "conn" ->
                   [ret |-> "NotReady", err |-> "none", registered |-> "none",
                    st |-> AcceptConnection(rest, ev.id)]
              [] ev.t = "end" ->
                   [ret |-> "Ready", err |-> "none", registered |-> "none",
                    st |-> rest]
              [] OTHER ->
                   [ret |-> "Err", err |-> ev.err, registered |-> "none", st |-> rest]

\* The Listening arm: one incoming.poll(), then break. The task is registered
\* with the accept stream only when that poll returned NotReady.
ListeningArm(st) ==
    IF st.incoming = <<>>
    THEN [ret |-> "NotReady", err |-> "none", registered |-> "incoming", st |-> st]
    ELSE LET ev == Head(st.incoming)
             rest == [st EXCEPT !.incoming = Tail(@)]
         IN CASE ev.t = "conn" ->
                   [ret |-> "NotReady", err |-> "none", registered |-> "none",
                    st |-> AcceptConnection(rest, ev.id)]
              [] ev.t = "end" ->
                   [ret |-> "Err", err |-> "TCP server unexpectedly terminated",
                    registered |-> "none", st |-> rest]
              [] OTHER ->
                   [ret |-> "Err", err |-> ev.err, registered |-> "none", st |-> rest]

\* The whole of TcpServerInner::poll.
TcpPollResult(st) ==
    IF st.state = "Binding"
    THEN CASE st.bind = "pending" ->
                [ret |-> "NotReady", err |-> "none", registered |-> "bind", st |-> st]
           [] st.bind = "ready" ->
                LET n == TcpStartListening(st)
                IN IF n.panic
                   THEN [ret |-> "Panic", err |-> "none", registered |-> "none",
                         st |-> n.st]
                   ELSE ListeningArm(n.st)
           [] OTHER ->
                [ret |-> "Err", err |-> st.bind, registered |-> "none", st |-> st]
    ELSE ListeningArm(st)

TcpPoll ==
    /\ tcpState \in {"Binding", "Listening"}
    /\ tcpWake
    /\ LET r == TcpPollResult(TcpSt)
       IN /\ tcpState' = CASE r.ret = "NotReady" -> r.st.state
                           [] r.ret = "Err" -> "Failed"
                           [] r.ret = "Ready" -> "Done"
                           [] OTHER -> "Panicked"
          /\ tcpError' = r.err
          /\ tcpSlots' = r.st.slots
          /\ tcpRegistered' = r.registered
          \* a server that has returned is dropped, and its listener with it
          /\ incoming' = IF r.ret = "NotReady" THEN r.st.incoming ELSE <<>>
          /\ created' = r.st.created
          /\ connHandler' = r.st.connHandler
          /\ connTask' = r.st.connTask
    /\ tcpWake' = FALSE
    /\ UNCHANGED <<bind, arrivedConns, connErrors, connDrivers>>
    /\ UNCHANGED <<clientVars, handlerVars, udpVars>>

TcpNotify(source) == tcpWake' = (tcpWake \/ tcpRegistered = source)

\* The bind operation completes, with a listener or with an error.
BindCompletes(result) ==
    /\ tcpState = "Binding"
    /\ bind = "pending"
    /\ bind' = result
    /\ TcpNotify("bind")
    /\ UNCHANGED <<tcpState, incoming, arrivedConns, created, connHandler, connTask,
                   connErrors, connDrivers, tcpError, tcpRegistered>>
    /\ UNCHANGED <<tcpSlots, clientVars, handlerVars, udpVars>>

\* The listening socket exists from the moment the bind succeeded.
ListenerOpen ==
    /\ bind = "ready"
    /\ tcpState \in {"Binding", "Listening"}
    /\ \A i \in 1..Len(incoming) : incoming[i].t = "conn"

ConnectionArrives ==
    /\ ListenerOpen
    /\ arrivedConns < MaxConns
    /\ arrivedConns' = arrivedConns + 1
    /\ incoming' = Append(incoming, [t |-> "conn", id |-> arrivedConns + 1,
                                     err |-> "none"])
    /\ TcpNotify("incoming")
    /\ UNCHANGED <<tcpState, bind, created, connHandler, connTask, connErrors,
                   connDrivers, tcpError, tcpRegistered>>
    /\ UNCHANGED <<tcpSlots, clientVars, handlerVars, udpVars>>

AcceptStreamCloses(t, e) ==
    /\ ListenerOpen
    /\ incoming' = Append(incoming, [t |-> t, id |-> 0, err |-> e])
    /\ TcpNotify("incoming")
    /\ UNCHANGED <<tcpState, bind, arrivedConns, created, connHandler, connTask,
                   connErrors, connDrivers, tcpError, tcpRegistered>>
    /\ UNCHANGED <<tcpSlots, clientVars, handlerVars, udpVars>>

AcceptStreamEnds == AcceptStreamCloses("end", "none")

AcceptStreamFails(e) == AcceptStreamCloses("fail", e)

\* The task spawned for a connection: Ok(stream) => Channel::new(transporter),
\* HandlerDriver::new(boxed_spawner, handler, channel)
ConnectionEstablished(id) ==
    /\ connTask[id] = "connecting"
    /\ connTask' = [connTask EXCEPT ![id] = "running"]
    /\ connDrivers' = connDrivers \cup {id}
    /\ UNCHANGED <<tcpState, bind, incoming, arrivedConns, created, connHandler,
                   connErrors, tcpError, tcpRegistered, tcpWake>>
    /\ UNCHANGED <<tcpSlots, clientVars, handlerVars, udpVars>>

\* Mutant of ConnectionFails: the error is reported to every handler created
\* so far.
ConnectionFailsTellsAll(id) ==
    /\ connTask[id] = "connecting"
    /\ connTask' = [connTask EXCEPT ![id] = "failed"]
    /\ connErrors' = [h \in ConnIds |->
                        IF h <= created THEN connErrors[h] + 1 ELSE connErrors[h]]
    /\ UNCHANGED <<tcpState, bind, incoming, arrivedConns, created, connHandler,
                   connDrivers, tcpError, tcpRegistered, tcpWake>>
    /\ UNCHANGED <<tcpSlots, clientVars, handlerVars, udpVars>>

\* Err(e) => { handler.handle_transport_error(&e); futures::failed(e) }
ConnectionFails(id) ==
    /\ connTask[id] = "connecting"
    /\ connTask' = [connTask EXCEPT ![id] = "failed"]
    /\ connErrors' = [connErrors EXCEPT ![connHandler[id]] = @ + 1]
    /\ UNCHANGED <<tcpState, bind, incoming, arrivedConns, created, connHandler,
                   connDrivers, tcpError, tcpRegistered, tcpWake>>
    /\ UNCHANGED <<tcpSlots, clientVars, handlerVars, udpVars>>

\* The HandlerDriver of a connection returns Ready: its stream ended.
ConnectionDriverEnds(id) ==
    /\ connTask[id] = "running"
    /\ connTask' = [connTask EXCEPT ![id] = "finished"]
    /\ UNCHANGED <<tcpState, bind, incoming, arrivedConns, created, connHandler,
                   connErrors, connDrivers, tcpError, tcpRegistered, tcpWake>>
    /\ UNCHANGED <<tcpSlots, clientVars, handlerVars, udpVars>>

\* The HandlerDriver of a connection returns Err: its stream failed, and the
\* driver told its own handler before returning.
ConnectionDriverFails(id) ==
    /\ connTask[id] = "running"
    /\ connTask' = [connTask EXCEPT ![id] = "errored"]
    /\ connErrors' = [connErrors EXCEPT ![connHandler[id]] = @ + 1]
    /\ UNCHANGED <<tcpState, bind, incoming, arrivedConns, created, connHandler,
                   connDrivers, tcpError, tcpRegistered, tcpWake>>
    /\ UNCHANGED <<tcpSlots, clientVars, handlerVars, udpVars>>

\* An executor may poll a task that no source has notified; it need not.
TcpSpuriousPoll ==
    /\ tcpState \in {"Binding", "Listening"}
    /\ ~tcpWake
    /\ tcpWake' = TRUE
    /\ UNCHANGED <<tcpState, bind, incoming, arrivedConns, created, connHandler,
                   connTask, connErrors, connDrivers, tcpError, tcpRegistered>>
    /\ UNCHANGED <<tcpSlots, clientVars, handlerVars, udpVars>>

\* ------------------------------------------------------------- UdpServer
\* The part of the state that UdpServerInner.poll reads and writes, next to
\* that of its HandlerDriver.
UdpSt ==
    [state |-> udpState, bind |-> udpBind, slots |-> udpSlots, built |-> udpBuilt]

\* Mutant of UdpStartRunning: the driver is built and the server stays Binding.
UdpStartRunningStaysBinding(u) ==
    IF u.slots.spawner = "None" \/ u.slots.handler = "None"
    THEN [panic |-> TRUE, u |-> u]
    ELSE [panic |-> FALSE,
          u |-> [u EXCEPT !.slots = [spawner |-> "None", handler |-> "None"],
                          !.built = @ + 1]]

\* The Binding arm once the socket is bound: Channel::new(transporter),
\* HandlerDriver::new(spawner.take().expect(..), handler.take().expect(..), ..)
\* and the transition to Running. The result is [panic, u].
UdpStartRunning(u) ==
    IF u.slots.spawner = "None" \/ u.slots.handler = "None"
    THEN [panic |-> TRUE, u |-> u]
    ELSE [panic |-> FALSE,
          u |-> [u EXCEPT !.state = "Running",
                          !.slots = [spawner |-> "None", handler |-> "None"],
                          !.built = @ + 1]]

\* Mutant of UdpRunningArm: the end of the driver ends the server successfully.
UdpRunningArmCompletes(u, st) ==
    LET r == HandlerLoop(st)
    IN CASE r.ret = "NotReady" ->
              [ret |-> "NotReady", err |-> "none", u |-> u, hd |-> "parked",
               hderr |-> "none", st |-> r.st]
         [] r.ret = "Ready" ->
              [ret |-> "Ready", err |-> "none", u |-> u, hd |-> "done",
               hderr |-> "none", st |-> r.st]
         [] r.ret = "Err" ->
              [ret |-> "Err", err |-> r.err, u |-> u, hd |-> "failed",
               hderr |-> r.err, st |-> r.st]
         [] OTHER ->
              [ret |-> "Panic", err |-> "none", u |-> u, hd |-> "panicked",
               hderr |-> "none", st |-> r.st]

\* The Running arm: one driver.poll(); Ready(()) is turned into an error.
UdpRunningArm(u, st) ==
    LET r == HandlerLoop(st)
    IN CASE r.ret = "NotReady" ->
              [ret |-> "NotReady", err |-> "none", u |-> u, hd |-> "parked",
               hderr |-> "none", st |-> r.st]
         [] r.ret = "Ready" ->
              [ret |-> "Err", err |-> "UDP server unexpectedly terminated",
               u |-> u, hd |-> "done", hderr |-> "none", st |-> r.st]
         [] r.ret = "Err" ->
              [ret |-> "Err", err |-> r.err, u |-> u, hd |-> "failed",
               hderr |-> r.err, st |-> r.st]
         [] OTHER ->
              [ret |-> "Panic", err |-> "none", u |-> u, hd |-> "panicked",
               hderr |-> "none", st |-> r.st]

\* The whole of UdpServerInner::poll.
UdpPollResult(u, st) ==
    IF u.state = "Binding"
    THEN CASE u.bind = "pending" ->
                [ret |-> "NotReady", err |-> "none", u |-> u, hd |-> "parked",
                 hderr |-> "none", st |-> [st EXCEPT !.registered = {"bind"}]]
           [] u.bind = "ready" ->
                LET n == UdpStartRunning(u)
                IN IF n.panic
                   THEN [ret |-> "Panic", err |-> "none", u |-> n.u, hd |-> "parked",
                         hderr |-> "none", st |-> st]
                   ELSE UdpRunningArm(n.u, st)
           [] OTHER ->
                [ret |-> "Err", err |-> u.bind, u |-> u, hd |-> "parked",
                 hderr |-> "none", st |-> st]
    ELSE UdpRunningArm(u, st)

UdpPoll ==
    /\ udpState \in {"Binding", "Running"}
    /\ hdWake
    /\ LET r == UdpPollResult(UdpSt, HandlerSt)
       IN /\ udpState' = CASE r.ret = "NotReady" -> r.u.state
                           [] r.ret = "Err" -> "Failed"
                           [] r.ret = "Ready" -> "Done"
                           [] OTHER -> "Panicked"
          /\ udpError' = r.err
          /\ udpSlots' = r.u.slots
          /\ udpBuilt' = r.u.built
          /\ hdState' = r.hd
          /\ hdError' = r.hderr
          \* a server that has returned is dropped, with its driver and Channel
          /\ hInbound' = IF r.ret = "NotReady" THEN r.st.inbound ELSE <<>>
          /\ response_rx' = IF r.ret = "NotReady" THEN r.st.response_rx ELSE <<>>
          /\ hdRegistered' = IF r.ret = "NotReady" THEN r.st.registered ELSE {}
          /\ deferred' = r.st.deferred
          /\ handledBy' = r.st.handledBy
          /\ replies' = r.st.replies
          /\ transportErrors' = r.st.transportErrors
    /\ hdWake' = FALSE
    /\ UNCHANGED <<udpBind, received, msgOf, completion>>
    /\ UNCHANGED <<clientVars, tcpVars>>

\* The bind operation completes, with a socket or with an error.
UdpBindCompletes(result) ==
    /\ udpState = "Binding"
    /\ udpBind = "pending"
    /\ udpBind' = result
    /\ Notify("bind")
    /\ UNCHANGED <<udpState, udpSlots, udpBuilt, udpError>>
    /\ UNCHANGED <<received, hInbound, response_rx, deferred, handledBy, msgOf,
                   completion, replies, transportErrors, hdState, hdError,
                   hdRegistered>>
    /\ UNCHANGED <<clientVars, tcpVars>>

\* The socket exists from the moment the bind succeeded, and as long as the
\* server does.
UdpSocketOpen ==
    /\ udpBind = "ready"
    /\ udpState \in {"Binding", "Running"}

UdpReceive(kind, peer, act, val) == UdpSocketOpen /\ Receive(kind, peer, act, val)

UdpStreamEnd == UdpSocketOpen /\ HStreamEnd

UdpStreamFail(e) == UdpSocketOpen /\ HStreamFail(e)

\* ------------------------------------------------------------- specification
Init ==
    /\ clients = 1
    /\ issued = 0
    /\ sendFailed = {}
    /\ command_rx = <<>>
    /\ channel = ChannelOk
    /\ transactions = {}
    /\ arrived = [i \in CmdIds |-> "none"]
    /\ peerMsgs = 0
    /\ stream = "open"
    /\ callResult = [i \in CmdIds |-> Pending]
    /\ tasks = {}
    /\ reply = [i \in CmdIds |-> <<>>]
    /\ handled = [i \in CmdIds |-> "no"]
    /\ castLog = <<>>
    /\ touched = FALSE
    /\ cdState = "parked"
    /\ cdWake = TRUE
    /\ lastPoll = NoPoll
    /\ droppedCall = 0
    \* HandlerDriver::new, spawned and about to be polled for the first time
    /\ received = 0
    /\ hInbound = <<>>
    /\ response_rx = <<>>
    /\ deferred = [i \in MsgIds |-> "none"]
    /\ handledBy = [i \in MsgIds |-> "none"]
    /\ msgOf = [i \in MsgIds |-> NoMsg]
    /\ completion = [i \in MsgIds |-> "none"]
    /\ replies = <<>>
    /\ transportErrors = <<>>
    /\ hdState = "parked"
    /\ hdError = "none"
    /\ hdRegistered = {}
    /\ hdWake = TRUE
    \* TcpServer::start, spawned and about to be polled for the first time
    /\ tcpState = "Binding"
    /\ bind = "pending"
    /\ tcpSlots = [spawner |-> "Some", handler_factory |-> "Some"]
    /\ incoming = <<>>
    /\ arrivedConns = 0
    /\ created = 0
    /\ connHandler = [i \in ConnIds |-> 0]
    /\ connTask = [i \in ConnIds |-> "none"]
    /\ connErrors = [h \in ConnIds |-> 0]
    /\ connDrivers = {}
    /\ tcpError = "none"
    /\ tcpRegistered = "none"
    /\ tcpWake = TRUE
    \* UdpServer::start, spawned and about to be polled for the first time
    /\ udpState = "Binding"
    /\ udpBind = "pending"
    /\ udpSlots = [spawner |-> "Some", handler |-> "Some"]
    /\ udpBuilt = 0
    /\ udpError = "none"

NextClient ==
    \/ ClientCall
    \/ ClientCast
    \/ ClientClone
    \/ ClientDrop
    \/ DriverPoll
    \/ \E id \in CmdIds : CompletionTask(id)
    \/ \E id \in CmdIds : NetResponse(id)
    \/ \E id \in CmdIds : NetTimeout(id)
    \/ NetMessage
    \/ NetEnd
    \/ \E e \in TransportErrors : NetFail(e)

SpecClient == Init /\ [][NextClient]_vars

\* A Client whose caller may give up one call.
NextClientDrop ==
    \/ ClientCall
    \/ ClientCast
    \/ ClientDrop
    \/ DriverPoll
    \/ \E id \in CmdIds : CompletionTask(id)
    \/ \E id \in CmdIds : DropCallFuture(id)
    \/ \E id \in CmdIds : NetResponse(id)
    \/ \E id \in CmdIds : NetTimeout(id)
    \/ NetEnd
    \/ NetFail("e1")

SpecClientDrop == Init /\ [][NextClientDrop]_vars

NextHandler ==
    \/ HandlerPoll
    \/ \E kind \in {"Request", "Indication", "Invalid"}, peer \in Peers,
          act \in ActionsFor("Request"), val \in Responses \cup {"none"} :
          Receive(kind, peer, act, val)
    \/ HStreamEnd
    \/ \E e \in TransportErrors : HStreamFail(e)
    \/ \E id \in MsgIds, val \in Responses : FutureReplyCompletes(id, val)
    \/ \E id \in MsgIds : FutureNoReplyCompletes(id)

SpecHandler == Init /\ [][NextHandler]_vars

NextTcp ==
    \/ TcpPoll
    \/ \E result \in {"ready"} \cup TransportErrors : BindCompletes(result)
    \/ ConnectionArrives
    \/ AcceptStreamEnds
    \/ \E e \in TransportErrors : AcceptStreamFails(e)
    \/ \E id \in ConnIds : ConnectionEstablished(id)
    \/ \E id \in ConnIds : ConnectionFails(id)
    \/ \E id \in ConnIds : ConnectionDriverEnds(id)
    \/ \E id \in ConnIds : ConnectionDriverFails(id)
    \/ TcpSpuriousPoll

SpecTcp == Init /\ [][NextTcp]_vars

\* Both servers side by side, with the events of their sockets only.
NextServers ==
    \/ UdpPoll
    \/ \E result \in {"ready"} \cup TransportErrors : UdpBindCompletes(result)
    \/ UdpStreamEnd
    \/ \E e \in TransportErrors : UdpStreamFail(e)
    \/ TcpPoll
    \/ \E result \in {"ready"} \cup TransportErrors : BindCompletes(result)
    \/ ConnectionArrives
    \/ AcceptStreamEnds
    \/ \E e \in TransportErrors : AcceptStreamFails(e)
    \/ TcpSpuriousPoll

SpecServers == Init /\ [][NextServers]_vars

NextUdp ==
    \/ UdpPoll
    \/ \E result \in {"ready"} \cup TransportErrors : UdpBindCompletes(result)
    \/ \E kind \in {"Request", "Indication", "Invalid"}, peer \in Peers,
          act \in {"NoReply", "FutureNoReply", "Reply", "FutureReply"},
          val \in Responses \cup {"none"} : UdpReceive(kind, peer, act, val)
    \/ UdpStreamEnd
    \/ \E e \in TransportErrors : UdpStreamFail(e)
    \/ \E id \in MsgIds, val \in Responses : FutureReplyCompletes(id, val)
    \/ \E id \in MsgIds : FutureNoReplyCompletes(id)

SpecUdp == Init /\ [][NextUdp]_vars

\* The executor polls a notified task, and a spawned future runs to completion.
SpecHandlerFair ==
    /\ SpecHandler
    /\ WF_vars(HandlerPoll)
    /\ \A id \in MsgIds : WF_vars(\E val \in Responses : FutureReplyCompletes(id, val))

\* ------------------------------------------------------------- claims: client
IsCallOutcome(o, id) == o.k \in {"response", "timeout", "aborted"} /\ o.id = id

\* C1: every Call command the ChannelDriver has taken from the command queue has
\* its reply-slot resolved at most once, and once its completion future has run
\* (or at once, when the Channel had already failed) exactly once: with the
\* outcome the Channel produced for that very call, or with the stored channel
\* error; a command that is not a handled Call never has its slot written.
C1_CallResolvedExactlyOnce ==
    \A id \in CmdIds :
        /\ Len(reply[id]) <= 1
        /\ handled[id] = "call" =>
              IF id \in tasks
              THEN reply[id] = <<>>
              ELSE reply[id] = <<callResult[id]>> /\ IsCallOutcome(callResult[id], id)
        /\ handled[id] = "call_failed" =>
              reply[id] = <<StoredError(channel.err)>> /\ ~channel.ok
        /\ handled[id] \notin {"call", "call_failed"} => reply[id] = <<>>

\* Two calls were outstanding together, a cast was forwarded as well, and each
\* call was resolved with its own outcome, the two outcomes differing in kind.
C1_Witness ==
    \E i, j, c \in CmdIds :
        /\ i < j
        /\ handled[i] = "call" /\ handled[j] = "call" /\ handled[c] = "cast"
        /\ lastPoll.left = 0
        /\ reply[j] = <<ResponseTo(j)>>
        /\ reply[i] = <<TimeoutOf(i)>>

\* C2 as stated: whenever the ChannelDriver's poll has returned Ready, the
\* command queue was closed and no transaction was outstanding.
C2_ReadyOnlyWhenClosedAndIdle ==
    cdState = "done" => lastPoll.closed /\ lastPoll.left = 0

\* C2 as amended: whenever the ChannelDriver's poll has returned Ready, either
\* the command queue was closed and no transaction was outstanding, or the
\* Channel's inbound stream has ended (Channel.poll returned Ready(None)).
C2_ReadyOnlyWhenIdleOrStreamEnded ==
    cdState = "done" =>
        \/ lastPoll.closed /\ lastPoll.left = 0 /\ clients = 0
        \/ lastPoll.via = "ended" /\ stream = "end"

\* The driver has stopped because its queue was closed, after a call it had
\* forwarded was resolved by the Channel.
C2_Witness ==
    /\ cdState = "done"
    /\ lastPoll.via = "closed"
    /\ \E id \in CmdIds : handled[id] = "call" /\ callResult[id] = ResponseTo(id)

\* C3: once the command queue is closed, a ChannelDriver that has returned
\* NotReady and has not been notified since still has an outstanding transaction
\* on a live Channel (whose response or timer will notify it): it is never left
\* pending with no outstanding work, or with a failed Channel.
C3_ClosedDriverNeverStranded ==
    (cdState = "parked" /\ ~cdWake /\ clients = 0) =>
        (channel.ok /\ transactions # {})

\* C4 as stated: a poll that sees the closed command queue with OutstandingCount
\* = 0 returns Ready, and a poll returns Ready only when no transaction is
\* outstanding any more.
C4_ReadyAtOnceAndOnlyAfterAllResolved ==
    /\ (lastPoll.closed /\ lastPoll.atClose = 0) => cdState = "done"
    /\ cdState = "done" => lastPoll.left = 0

\* C4 as amended: a poll that sees the closed command queue with OutstandingCount
\* = 0 returns Ready, and a poll returns Ready with transactions outstanding
\* only because the Channel's inbound stream has ended.
C4_ReadyAtOnceAndOnlyAfterResolvedOrEnded ==
    /\ (lastPoll.closed /\ lastPoll.atClose = 0) =>
          (cdState = "done" /\ lastPoll.ret = "Ready")
    /\ (cdState = "done" /\ lastPoll.left > 0) => stream = "end"

\* The last handle was dropped while a call was outstanding; the call timed out
\* and a later poll, seeing the closed queue with nothing outstanding, ended the
\* driver.
C4_Witness ==
    /\ cdState = "done"
    /\ lastPoll.closed /\ lastPoll.atClose = 0 /\ lastPoll.ret = "Ready"
    /\ stream = "open"
    /\ \E id \in CmdIds : handled[id] = "call" /\ reply[id] = <<TimeoutOf(id)>>

\* C5: no operation is ever performed on a failed Channel; a Call handled after
\* the failure is resolved in that very step with the stored error and is never
\* handed to the Channel, and a Cast handled after it is not forwarded.
C5_FailedChannelNeverTouched ==
    /\ ~touched
    /\ ~channel.ok => transactions = {}
    /\ \A id \in CmdIds :
          /\ handled[id] = "call_failed" =>
                /\ reply[id] = <<StoredError(channel.err)>>
                /\ channel.err \in TransportErrors
                /\ callResult[id] = Pending
                /\ id \notin tasks
          /\ handled[id] = "cast_dropped" =>
                \A n \in 1..Len(castLog) : castLog[n] # id

\* After the Channel failed with e2, a Call was answered with e2 and a Cast was
\* dropped.
C5_Witness ==
    /\ channel = ChannelErr("e2")
    /\ \E i, j \in CmdIds :
          /\ handled[i] = "call_failed" /\ reply[i] = <<StoredError("e2")>>
          /\ handled[j] = "cast_dropped"

\* ------------------------------------------------------------- claims: HandlerDriver
RepliesFor(id) == {n \in 1..Len(replies) : replies[n].id = id}

IsFutureReplyRequest(id) ==
    msgOf[id].kind = "Request" /\ msgOf[id].act = "FutureReply"

\* The reply the driver owes to message id, when it owes one.
ExpectedReply(id) ==
    [peer |-> msgOf[id].peer,
     val |-> IF msgOf[id].act = "Reply" THEN msgOf[id].val ELSE completion[id],
     id |-> id]

\* C6 as stated, in the form a finite run refutes: once the computation of a
\* FutureReply has completed and the driver is not waiting to be polled, exactly
\* one reply for that request has been handed to the Channel (the Handler
\* keeping to the contract of handle_cast).
C6_CompletedFutureReplyForwarded ==
    \A id \in MsgIds :
        (IsFutureReplyRequest(id) /\ completion[id] # "none"
           /\ ~(hdState = "parked" /\ hdWake) /\ hdState # "panicked")
        => Cardinality(RepliesFor(id)) = 1

QueuedFor(id) == {n \in 1..Len(response_rx) : response_rx[n].id = id}

\* C6 as amended: a request answered with FutureReply never gets more than one
\* reply, and that reply carries the request's peer and the value its
\* computation completed with; while the driver runs, a completed computation's
\* reply is either in the reply queue with the driver notified or has been handed
\* to the Channel, whatever the order of completion; only a driver that has ended
\* (its inbound stream ended or failed, or a Handler broke the contract of
\* handle_cast) leaves a reply unforwarded.
C6_FutureRepliesForwardedWhileRunning ==
    \A id \in MsgIds :
        IsFutureReplyRequest(id) =>
           /\ Cardinality(RepliesFor(id)) <= 1
           /\ \A n \in RepliesFor(id) :
                 completion[id] # "none" /\ replies[n] = ExpectedReply(id)
           /\ (completion[id] # "none" /\ hdState = "parked") =>
                 \/ Cardinality(RepliesFor(id)) = 1 /\ QueuedFor(id) = {}
                 \/ /\ hdWake
                    /\ RepliesFor(id) = {}
                    /\ Cardinality(QueuedFor(id)) = 1
                    /\ \A n \in QueuedFor(id) : response_rx[n] = ExpectedReply(id)
           /\ deferred[id] = "lost" => hdState # "parked"

\* The same, as a property of the fair behaviours: every dispatched FutureReply
\* request is eventually replied to, unless the driver ends first.
C6_EventuallyForwardedWhileRunning ==
    <>[](\A id \in MsgIds :
           (IsFutureReplyRequest(id) /\ handledBy[id] = "handle_call")
           => (Cardinality(RepliesFor(id)) = 1 \/ hdState # "parked"))

\* Two requests were both answered with FutureReply, the second computation
\* completed first, and the driver, still running, forwarded both replies in
\* that (reversed) order.
C6_Witness ==
    /\ MaxMsgs >= 2
    /\ IsFutureReplyRequest(1) /\ IsFutureReplyRequest(2)
    /\ hdState = "parked"
    /\ Len(replies) = 2
    /\ replies[1] = ExpectedReply(2)
    /\ replies[2] = ExpectedReply(1)

\* C7: a dispatched request or invalid message gets at most one Channel.reply:
\* the value of its Action::Reply, sent when it is dispatched, or the value its
\* FutureReply completed with; NoReply and FutureNoReply get none, and nothing
\* else is ever replied to.
C7_AtMostOneReplyPerMessage ==
    /\ \A n \in 1..Len(replies) : replies[n].id \in MsgIds
    /\ \A id \in MsgIds :
          /\ Cardinality(RepliesFor(id)) <= 1
          /\ \A n \in RepliesFor(id) :
                /\ handledBy[id] \in {"handle_call", "handle_invalid_message"}
                /\ msgOf[id].act \in {"Reply", "FutureReply"}
                /\ replies[n] = ExpectedReply(id)
                /\ replies[n].val \in Responses
          /\ (handledBy[id] # "none" /\ msgOf[id].act = "Reply")
                => Cardinality(RepliesFor(id)) = 1
          /\ msgOf[id].act \in {"NoReply", "FutureNoReply"} => RepliesFor(id) = {}

\* An invalid message was answered with an immediate reply, and a request whose
\* Handler returned FutureNoReply saw its future finish without any reply.
C7_Witness ==
    \E i, j \in MsgIds :
        /\ msgOf[i].kind = "Invalid" /\ msgOf[i].act = "Reply"
        /\ replies = <<ExpectedReply(i)>>
        /\ msgOf[j].kind = "Request" /\ msgOf[j].act = "FutureNoReply"
        /\ deferred[j] = "finished"

\* C8: an indication is dispatched to handle_cast, and only indications are; it
\* never causes a Channel.reply; and an Action other than NoReply and
\* FutureNoReply stops the driver on the spot: nothing is spawned for it and no
\* later message is dispatched.
C8_IndicationContract ==
    /\ \A id \in MsgIds :
          /\ (handledBy[id] = "handle_cast") =
                (msgOf[id].kind = "Indication" /\ handledBy[id] # "none")
          /\ msgOf[id].kind = "Indication" => RepliesFor(id) = {}
          /\ (handledBy[id] = "handle_cast"
                /\ msgOf[id].act \notin {"NoReply", "FutureNoReply"})
             => /\ hdState = "panicked"
                /\ deferred[id] = "none"
                /\ \A later \in MsgIds : later > id => handledBy[later] = "none"
    /\ hdState = "panicked" =>
          \E id \in MsgIds :
              handledBy[id] = "handle_cast" /\ msgOf[id].act = "FutureReply"

\* A request was answered, then an indication whose Handler returned FutureReply
\* stopped the driver.
C8_Witness ==
    /\ hdState = "panicked"
    /\ \E i, j \in MsgIds :
          /\ i < j
          /\ msgOf[i].kind = "Request" /\ RepliesFor(i) # {}
          /\ msgOf[j].kind = "Indication" /\ handledBy[j] = "handle_cast"

\* A poll returns the error its inbound stream failed with, and returns Ready
\* only at the clean end of the stream.
EndsAsStreamEnds ==
    /\ (hdState = "parked" /\ hdState' = "failed") =>
          \E n \in 1..Len(hInbound) :
              hInbound[n].kind = "fail" /\ hInbound[n].err = hdError'
    /\ (hdState = "parked" /\ hdState' = "done") =>
          \E n \in 1..Len(hInbound) : hInbound[n].kind = "end"

\* Once the driver has ended, nothing is dispatched, replied or notified.
NothingAfterEnd ==
    hdState \in {"done", "failed"} =>
        /\ hdState' = hdState
        /\ replies' = replies
        /\ handledBy' = handledBy
        /\ transportErrors' = transportErrors

\* C9: a driver that ended successfully never notified the Handler; a driver that
\* ended with an error passed exactly that error to handle_transport_error, once,
\* and the error is the one its inbound stream failed with; the Handler is
\* notified in no other case; a driver that is idle has read its whole inbound
\* stream; and after either end nothing is dispatched, replied or notified.
C9_Termination ==
    /\ [](/\ hdState = "done" => (transportErrors = <<>> /\ hdError = "none")
          /\ hdState = "failed" =>
                (transportErrors = <<hdError>> /\ hdError \in TransportErrors)
          /\ transportErrors # <<>> => hdState = "failed"
          /\ (hdState = "parked" /\ ~hdWake) => hInbound = <<>>)
    /\ [][EndsAsStreamEnds]_vars
    /\ [][NothingAfterEnd]_vars

\* The inbound stream failed with e2 after a reply had been sent; the Handler was
\* told, the driver returned e2, and a FutureReply that completed afterwards
\* was never forwarded.
C9_Witness ==
    /\ hdState = "failed"
    /\ hdError = "e2"
    /\ transportErrors = <<"e2">>
    /\ Len(replies) = 1
    /\ \E id \in MsgIds : deferred[id] = "lost"

\* ------------------------------------------------------------- claims: HandlerDriver, continued
\* The step in which message j is dispatched.
Dispatched(j) == handledBy[j] = "none" /\ handledBy'[j] # "none"

RepliesAfterFor(id) == {n \in 1..Len(replies') : replies'[n].id = id}

ImmediateReplyNotDelayed ==
    \A j \in MsgIds :
        (Dispatched(j) /\ msgOf[j].kind = "Request" /\ msgOf[j].act = "Reply") =>
            /\ \E n \in RepliesAfterFor(j) :
                  /\ replies'[n].val = msgOf[j].val
                  /\ replies'[n].peer = msgOf[j].peer
            /\ \A i \in MsgIds :
                  (i < j /\ msgOf[i].act = "FutureReply" /\ completion[i] = "none") =>
                      RepliesAfterFor(i) = {}

\* C17: the poll that dispatches a request answered with an immediate Reply
\* writes that reply to the Channel before it returns, whatever FutureReply
\* computations of earlier requests are still running; the reply of such an
\* earlier request, not completed when the later one is dispatched, is
\* written after it.
C17_PendingFutureReplyDoesNotDelay ==
    /\ [][ImmediateReplyNotDelayed]_vars
    /\ [](\A i, j \in MsgIds :
            (i < j /\ IsFutureReplyRequest(i) /\ completion[i] = "none"
               /\ msgOf[j].kind = "Request" /\ msgOf[j].act = "Reply"
               /\ handledBy[j] # "none") =>
                (RepliesFor(i) = {} /\ RepliesFor(j) # {}))

\* R1 from peer A got FutureReply, R2 from peer B an immediate Reply; R2's
\* reply was written first, R1's after its computation completed.
C17_Witness ==
    /\ IsFutureReplyRequest(1)
    /\ msgOf[2].kind = "Request" /\ msgOf[2].act = "Reply"
    /\ Len(replies) = 2
    /\ replies[1].id = 2 /\ replies[1].peer = "B"
    /\ replies[2].id = 1 /\ replies[2].peer = "A"

\* C19 as stated: every deferred reply that reached the reply queue has been
\* written to the Channel by the end of the turn that found it there, whatever
\* that turn returned.
C19_QueuedRepliesWrittenEveryTurn ==
    \A id \in MsgIds :
        (deferred[id] = "sent" /\ ~hdWake /\ hdState # "panicked") =>
            RepliesFor(id) # {}

\* A turn of the driver, and the replies it wrote.
HandlerTurn == hdState = "parked" /\ hdWake /\ ~hdWake'

NewReplies == SubSeq(replies', Len(replies) + 1, Len(replies'))

WasQueued(r) == \E n \in 1..Len(response_rx) : response_rx[n].id = r.id

QueueDrainedInOrder ==
    (HandlerTurn /\ hdState' = "parked") =>
        /\ SelectSeq(NewReplies, WasQueued) = response_rx
        /\ response_rx' = <<>>

\* C19, amended: a turn that returns NotReady has written every deferred reply
\* it found in the reply queue, in the order of the queue, which is the order
\* in which the computations completed; a turn that ends the driver (the
\* inbound stream ended or failed) may leave queued replies unwritten.
C19_QueuedRepliesWrittenWhileRunning ==
    /\ [][QueueDrainedInOrder]_vars
    /\ [](\A id \in MsgIds :
            (deferred[id] = "sent" /\ ~hdWake /\ hdState = "parked") =>
                RepliesFor(id) # {})

\* Request 1 was dispatched first and request 2 completed first: both replies
\* were forwarded, that of request 2 before that of request 1.
C19_Witness ==
    /\ MaxMsgs >= 2
    /\ deferred[1] = "sent" /\ deferred[2] = "sent"
    /\ completion[1] = "error" /\ completion[2] = "success"
    /\ hdState = "parked" /\ ~hdWake
    /\ replies = <<[peer |-> "B", val |-> "success", id |-> 2],
                   [peer |-> "A", val |-> "error", id |-> 1]>>

\* ------------------------------------------------------------- claims: Client, continued
\* C14: Channel.cast is called for Cast commands in the order in which they
\* entered the command queue (command ids count submissions), whatever Call
\* commands were submitted between them; each Cast is forwarded at most once.
C14_CastsForwardedInSubmissionOrder ==
    /\ \A i, j \in 1..Len(castLog) : i < j => castLog[i] < castLog[j]
    /\ \A i \in 1..Len(castLog) : handled[castLog[i]] = "cast"

C14_Witness ==
    /\ MaxCmds >= 3
    /\ castLog = <<1, 3>>
    /\ handled[2] = "call"

\* What Client.call and Client.cast do with their command: it is refused when
\* the driver is gone and appended to the queue otherwise.
SendOutcome ==
    issued' = issued + 1 =>
        IF cdState = "done"
        THEN /\ sendFailed' = sendFailed \cup {issued'}
             /\ command_rx' = command_rx
        ELSE /\ sendFailed' = sendFailed
             /\ Len(command_rx') = Len(command_rx) + 1
             /\ command_rx'[Len(command_rx')].id = issued'
             /\ command_rx'[Len(command_rx')].kind \in {"Call", "Cast"}

\* C15: a call or cast is refused at the Client exactly when the driver is gone
\* (the command queue is closed); while the driver exists the command is
\* queued and the Client reports success at once, before the driver has looked
\* at it. A refused command never reaches the driver and a refused call has no
\* reply-slot resolution.
C15_SendFailsExactlyWhenDriverGone ==
    /\ [](\A id \in sendFailed : handled[id] = "no" /\ reply[id] = <<>>)
    /\ [](\A id \in CmdIds : handled[id] # "no" => id \notin sendFailed)
    /\ [][SendOutcome]_vars

C15_Witness ==
    /\ cdState = "done"
    /\ handled[1] = "cast"
    /\ handled[2] = "call"
    /\ sendFailed = {3}

\* Dropping a call's future changes nothing the driver, the Channel or the
\* completion futures hold.
DropLeavesDriverAlone ==
    droppedCall' # droppedCall =>
        UNCHANGED <<command_rx, channel, transactions, arrived, stream, callResult,
                    tasks, reply, handled, castLog, cdState, cdWake>>

\* C16: after the caller has dropped the future of a call, the driver goes on
\* as before: it resolves the dropped call's reply-slot once, like any other
\* (the value is discarded), it neither fails nor panics, and every other call
\* it has handled is resolved exactly once with its own outcome, or with the
\* stored channel error.
C16_DroppedFutureIsHarmless ==
    /\ [](droppedCall # 0 =>
            /\ cdState \in {"parked", "done"}
            /\ Len(reply[droppedCall]) <= 1
            /\ \A id \in CmdIds \ {droppedCall} :
                  /\ handled[id] = "call" =>
                        IF id \in tasks
                        THEN reply[id] = <<>>
                        ELSE reply[id] = <<callResult[id]>>
                             /\ IsCallOutcome(callResult[id], id)
                  /\ handled[id] = "call_failed" =>
                        reply[id] = <<StoredError(channel.err)>>)
    /\ [][DropLeavesDriverAlone]_vars

\* The future of call 1 was dropped while calls 1 and 2 were outstanding; the
\* driver then resolved both, each with its own outcome.
C16_Witness ==
    /\ droppedCall = 1
    /\ handled[1] = "call" /\ handled[2] = "call"
    /\ reply[1] = <<ResponseTo(1)>>
    /\ reply[2] = <<TimeoutOf(2)>>
    /\ cdState = "parked"

\* A poll of the driver that finds a Cast in the queue while holding the
\* error of a failed Channel drops that Cast and goes on.
CastAfterFailureDropped ==
    (cdState = "parked" /\ cdWake /\ ~cdWake' /\ ~channel.ok) =>
        /\ castLog' = castLog
        /\ cdState' \in {"parked", "done"}
        /\ \A n \in 1..Len(command_rx) :
              command_rx[n].kind = "Cast" =>
                  handled'[command_rx[n].id] = "cast_dropped"

\* C18: once the driver holds the transport error of its Channel, a cast is
\* never blocked (the Client either refuses it at once or queues it at once),
\* the driver drops a queued one without a panic and goes on, and no such cast
\* reaches Channel.cast.
C18_CastAfterFailureNeverReachesChannel ==
    /\ [](\A id \in CmdIds :
            handled[id] = "cast_dropped" =>
                /\ ~channel.ok
                /\ id \notin sendFailed
                /\ \A n \in 1..Len(castLog) : castLog[n] # id)
    /\ []((~channel.ok /\ clients > 0 /\ issued < MaxCmds) => ENABLED ClientCast)
    /\ [][CastAfterFailureDropped]_vars

C18_Witness ==
    /\ ~channel.ok
    /\ castLog = <<1>>
    /\ handled[2] = "cast_dropped"
    /\ handled[3] = "cast_dropped"
    /\ cdState = "parked"

\* ------------------------------------------------------------- claims: TcpServer
WaitingConnections == {n \in 1..Len(incoming) : incoming[n].t = "conn"}

\* C10: a Listening TcpServer that has returned NotReady and has not been
\* notified since has accepted every connection that arrived (one handler
\* instance and one task for each): no connection is left waiting behind an
\* earlier accepted one with nothing to make the server poll again.
C10_NoConnectionLeftWaiting ==
    (tcpState = "Listening" /\ ~tcpWake) =>
        /\ WaitingConnections = {}
        /\ created = arrivedConns

\* The effects of a connection's task stay with that connection: the listener
\* and every other connection's task are as they were.
OthersUntouchedBy(id) ==
    /\ tcpState' = tcpState
    /\ incoming' = incoming
    /\ created' = created
    /\ tcpError' = tcpError
    /\ \A j \in ConnIds \ {id} : connTask'[j] = connTask[j]
    /\ \A h \in ConnIds \ {connHandler[id]} : connErrors'[h] = connErrors[h]

ConnectionStepIsolated ==
    \A id \in ConnIds :
        /\ (connTask[id] = "connecting" /\ connTask'[id] = "failed") =>
              /\ connErrors'[connHandler[id]] = connErrors[connHandler[id]] + 1
              /\ connDrivers' = connDrivers
              /\ OthersUntouchedBy(id)
        /\ (connTask[id] = "running" /\ connTask'[id] \in {"finished", "errored"}) =>
              OthersUntouchedBy(id)

\* C11: a connection whose establishment fails has its error reported to the
\* handler created for it and to no other handler, gets no Channel and no
\* HandlerDriver, and leaves the listener as it was; the end or the error of a
\* connection's HandlerDriver changes neither the listener nor any other
\* connection's task. Every connection has a handler of its own.
C11_ConnectionsIsolated ==
    /\ [](/\ \A id \in ConnIds : connTask[id] = "failed" => id \notin connDrivers
          /\ \A i, j \in ConnIds :
                (i # j /\ connHandler[i] # 0) => connHandler[i] # connHandler[j]
          /\ \A id \in ConnIds :
                connHandler[id] # 0 =>
                    connErrors[connHandler[id]] =
                        IF connTask[id] \in {"failed", "errored"} THEN 1 ELSE 0)
    /\ [][ConnectionStepIsolated]_vars

C11_Witness ==
    /\ tcpState = "Listening"
    /\ connTask[1] = "failed" /\ connErrors[connHandler[1]] = 1
    /\ connTask[2] = "running" /\ connErrors[connHandler[2]] = 0
    /\ connTask[3] = "errored"
    /\ connDrivers = {2, 3}

TcpTerminated == "TCP server unexpectedly terminated"

\* What a poll of the TcpServer finds: the error of the bind, or the head of
\* the accept stream once the listener exists.
TcpBindFailed == tcpState = "Binding" /\ bind \in TransportErrors

TcpAcceptHead(t) == bind = "ready" /\ incoming # <<>> /\ Head(incoming).t = t

TcpFailsAsItsSourceFails ==
    /\ (tcpState # "Failed" /\ tcpState' = "Failed") =>
          \/ TcpBindFailed /\ tcpError' = bind
          \/ TcpAcceptHead("end") /\ tcpError' = TcpTerminated
          \/ TcpAcceptHead("fail") /\ tcpError' = Head(incoming).err
    /\ (tcpWake /\ ~tcpWake'
          /\ (TcpBindFailed \/ TcpAcceptHead("end") \/ TcpAcceptHead("fail"))) =>
          tcpState' = "Failed"

\* C13: a TcpServer's poll never returns Ready. The poll that finds the accept
\* stream ended returns the error "TCP server unexpectedly terminated", the
\* poll that finds the bind or the accept stream failed returns that error,
\* and the server's poll returns an error in no other case.
C13_TcpServerNeverCompletes ==
    /\ [](tcpState # "Done")
    /\ [](tcpState \in {"Binding", "Listening"} => tcpError = "none")
    /\ [][TcpFailsAsItsSourceFails]_vars

C13_Witness ==
    /\ tcpState = "Failed"
    /\ tcpError = TcpTerminated
    /\ created = 2
    /\ \E id \in ConnIds : connTask[id] = "running"

\* ------------------------------------------------------------- claims: UdpServer
UdpTerminated == "UDP server unexpectedly terminated"

\* C12: a UdpServer's poll never returns Ready. A poll returns an error only
\* for a failed bind (that error), for a HandlerDriver that returned Ready
\* ("UDP server unexpectedly terminated") or for a HandlerDriver that returned
\* an error (that error); and each of the two driver outcomes does make the
\* poll return its error. A Running server whose driver is pending has
\* returned NotReady.
C12_UdpServerNeverCompletes ==
    /\ udpState # "Done"
    /\ udpState = "Failed" =>
          \/ udpBuilt = 0 /\ udpError = udpBind /\ udpBind \in TransportErrors
          \/ hdState = "done" /\ udpError = UdpTerminated
          \/ hdState = "failed" /\ udpError = hdError /\ hdError \in TransportErrors
    /\ hdState = "done" => (udpState = "Failed" /\ udpError = UdpTerminated)
    /\ hdState = "failed" => (udpState = "Failed" /\ udpError = hdError)
    /\ udpState \in {"Binding", "Running"} => (hdState = "parked" /\ udpError = "none")

C12_Witness ==
    /\ udpState = "Failed"
    /\ udpBuilt = 1
    /\ hdState = "done"
    /\ udpError = UdpTerminated
    /\ Len(replies) = 1

\* ------------------------------------------------------------- claims: server lifecycle
UdpForward ==
    {<<"Binding", "Running">>, <<"Binding", "Failed">>, <<"Running", "Failed">>,
     <<"Binding", "Panicked">>, <<"Running", "Panicked">>}

TcpForward ==
    {<<"Binding", "Listening">>, <<"Binding", "Failed">>, <<"Listening", "Failed">>}

LifecycleForward ==
    /\ udpState' # udpState => <<udpState, udpState'>> \in UdpForward
    /\ tcpState' # tcpState => <<tcpState, tcpState'>> \in TcpForward
    /\ udpBuilt' \in {udpBuilt, udpBuilt + 1}
    /\ udpBuilt' # udpBuilt => (udpState = "Binding" /\ udpBind = "ready")

AllTaken(slots) == \A f \in DOMAIN slots : slots[f] = "None"

NoneTaken(slots) == \A f \in DOMAIN slots : slots[f] = "Some"

\* C20: a server's state only moves forward (Binding, then Running or
\* Listening, then the failure that ends it) and never returns to an earlier
\* state; the spawner and the handler (or handler factory) are in their
\* Options all the time the server is Binding and are taken out together in the
\* one step that leaves Binding with a bound socket, so that no take finds
\* them missing (the only panic of a UdpServer is that of its HandlerDriver);
\* a UdpServer builds its Channel and HandlerDriver in that step and never
\* again.
C20_LifecycleMonotonic ==
    /\ [][LifecycleForward]_vars
    /\ [](/\ udpBuilt <= 1
          /\ udpState = "Binding" => (NoneTaken(udpSlots) /\ udpBuilt = 0)
          /\ udpState = "Running" => (AllTaken(udpSlots) /\ udpBuilt = 1)
          /\ (udpBuilt = 1) = AllTaken(udpSlots)
          /\ AllTaken(udpSlots) \/ NoneTaken(udpSlots)
          /\ udpState = "Panicked" => hdState = "panicked"
          /\ tcpState # "Panicked"
          /\ tcpState = "Binding" => NoneTaken(tcpSlots)
          /\ tcpState = "Listening" => AllTaken(tcpSlots)
          /\ AllTaken(tcpSlots) \/ NoneTaken(tcpSlots))

\* Both servers left Binding; the TcpServer has since been polled again, and
\* the UdpServer has failed with its socket's error.
C20_Witness ==
    /\ udpState = "Failed" /\ udpBuilt = 1 /\ AllTaken(udpSlots)
    /\ tcpState = "Listening" /\ AllTaken(tcpSlots)
    /\ created = 2

\* ------------------------------------------------------------- claims: HandlerDriver wake-up
\* An arrival at either source of a parked driver notifies its task.
ArrivalWakes ==
    (hdState = "parked"
       /\ (Len(hInbound') > Len(hInbound) \/ Len(response_rx') > Len(response_rx))) =>
        hdWake'

\* C21: a HandlerDriver that has returned NotReady and has not been notified
\* since polled both the Channel and the reply queue in its last loop
\* iteration and found both not ready: it is registered with both, nothing is
\* waiting in either, and the next inbound message or deferred-reply
\* completion notifies it. The reply queue never reports closed to a live
\* driver, which holds a sender of its own.
C21_NoLostWakeup ==
    /\ []((hdState = "parked" /\ ~hdWake) =>
            /\ hdRegistered = {"channel", "response_rx"}
            /\ hInbound = <<>>
            /\ response_rx = <<>>)
    /\ [](hdError # "reply queue closed")
    /\ [](hdState = "parked" => HeldSenders(HandlerSt) >= 1)
    /\ [][ArrivalWakes]_vars

\* The driver handled a request with a FutureReply still running and a second
\* message, wrote a reply, and is parked, registered with both sources.
C21_Witness ==
    /\ hdState = "parked" /\ ~hdWake
    /\ hdRegistered = {"channel", "response_rx"}
    /\ deferred[1] = "reply"
    /\ handledBy[2] # "none"
    /\ Len(replies) = 1

====
